---- MODULE Spec2Model ----
(***************************************************************************)
(* A model of lspython (src/lspython/lspython.py): the class LsPython with *)
(* get_mode_info, get_user_info, get_group_info, has_colors, list_files    *)
(* and ls.                                                                 *)
(*                                                                         *)
(* Strings are sequences of character codes, so that str.lower(), string   *)
(* comparison, "%4d" formatting and concatenation are computed as Python   *)
(* computes them.  Times are counted in ticks of 1/TicksPerSecond second,  *)
(* because st_mtime and time.time() are floats while `now` is an int.      *)
(***************************************************************************)
EXTENDS Integers, Sequences, FiniteSets, TLC

\* ------------------------------------------------------------------ bounds
MaxFiles == 3          \* longest list handed directly to list_files
MaxPaths == 2          \* longest list of paths handed to ls
TicksPerSecond == 2    \* sub-second resolution of the float clock

\* ------------------------------------------------------- program constants
Success == 0           \* self.success
ErrorCode == 84        \* self.error
SixMonths == 6 * 30 * 24 * 60 * 60

\* stat module constants used by get_mode_info
S_IFDIR == 16384       \* 0o040000
S_IFLNK == 40960       \* 0o120000
S_IFREG == 32768       \* 0o100000

\* ------------------------------------------------------------------ strings
Empty == << >>
README == <<82, 69, 65, 68, 77, 69>>
apple == <<97, 112, 112, 108, 101>>
Banana == <<66, 97, 110, 97, 110, 97>>
Cherry == <<67, 104, 101, 114, 114, 121>>
a_txt == <<97, 46, 116, 120, 116>>
missing_txt == <<109, 105, 115, 115, 105, 110, 103, 46, 116, 120, 116>>
dot_rc == <<46, 114, 99>>
sub == <<115, 117, 98>>
locked == <<108, 111, 99, 107, 101, 100>>
lnk == <<108, 110, 107>>
dead == <<100, 101, 97, 100>>
gone == <<103, 111, 110, 101>>
orphan == <<111, 114, 112, 104, 97, 110>>
x_c == <<120, 46, 99>>
Dot == <<46>>

\* ": No such file or directory\n"
DiagSuffix ==
  <<58, 32, 78, 111, 32, 115, 117, 99, 104, 32, 102, 105, 108, 101, 32,
    111, 114, 32, 100, 105, 114, 101, 99, 116, 111, 114, 121, 10>>
\* "Content of: "
HeaderPrefix == <<67, 111, 110, 116, 101, 110, 116, 32, 111, 102, 58, 32>>
\* " -> "
Arrow == <<32, 45, 62, 32>>
\* "\x1b[00m"
ColorReset == <<27, 91, 48, 48, 109>>

\* self.colors
colors ==
  [ default |-> << >>,
    white   |-> <<27, 91, 48, 49, 59, 51, 55, 109>>,
    gray    |-> <<27, 91, 48, 48, 59, 51, 55, 109>>,
    purple  |-> <<27, 91, 48, 48, 59, 51, 53, 109>>,
    cyan    |-> <<27, 91, 48, 49, 59, 51, 54, 109>>,
    green   |-> <<27, 91, 48, 49, 59, 51, 50, 109>>,
    red     |-> <<27, 91, 48, 49, 59, 48, 53, 59, 51, 55, 59, 52, 49, 109>> ]

\* str.lower() on ASCII: 'A'..'Z' (65..90) become 'a'..'z'
LowerChar(c) == IF c >= 65 /\ c <= 90 THEN c + 32 ELSE c
Lower(s) == [i \in 1..Len(s) |-> LowerChar(s[i])]

\* Python's str < str: lexicographic by code point, a proper prefix is smaller
RECURSIVE StrLess(_, _)
StrLess(s, t) ==
  IF t = << >> THEN FALSE
  ELSE IF s = << >> THEN TRUE
  ELSE IF s[1] # t[1] THEN s[1] < t[1]
  ELSE StrLess(Tail(s), Tail(t))

\* str(n) for n >= 0
RECURSIVE Str(_)
Str(n) == IF n < 10 THEN <<48 + n>> ELSE Str(n \div 10) \o <<48 + (n % 10)>>

\* "%<w>d" % n for n >= 0: right-justified in w columns, never truncated
RECURSIVE PadLeft(_, _)
PadLeft(s, w) == IF Len(s) >= w THEN s ELSE PadLeft(<<32>> \o s, w)

\* files.sort(key=lambda x: x.lower()): a stable sort on the lowered name
RECURSIVE InsertByLower(_, _)
InsertByLower(x, s) ==
  IF s = << >> THEN <<x>>
  ELSE IF StrLess(Lower(x), Lower(s[1])) THEN <<x>> \o s
  ELSE <<s[1]>> \o InsertByLower(x, Tail(s))

RECURSIVE SortFrom(_, _)
SortFrom(s, k) ==
  IF k = 0 THEN << >> ELSE InsertByLower(s[k], SortFrom(s, k - 1))

\* a sort on the name itself, which puts upper case before lower case
RECURSIVE InsertByName(_, _)
InsertByName(x, s) ==
  IF s = << >> THEN <<x>>
  ELSE IF StrLess(x, s[1]) THEN <<x>> \o s
  ELSE <<s[1]>> \o InsertByName(x, Tail(s))

RECURSIVE SortByNameFrom(_, _)
SortByNameFrom(s, k) ==
  IF k = 0 THEN << >> ELSE InsertByName(s[k], SortByNameFrom(s, k - 1))

SortedByName(s) == SortByNameFrom(s, Len(s))

SortedByLower(s) == SortFrom(s, Len(s))

\* ------------------------------------------------------- the file system
\* A fixed tree.  Directory "solo" holds the single file README; directory
\* "work" holds files of every kind the listing distinguishes, and its
\* subdirectory "sub" holds a file apple (other than work's apple) and x.c.
NoNode == "none"
Epoch == SixMonths + 1000000            \* some second after 1970 + six months
AtSecond(sec) == sec * TicksPerSecond   \* a time in ticks

File(mode, nlink, uid, gid, size, mtime) ==
  [mode |-> mode, nlink |-> nlink, uid |-> uid, gid |-> gid, size |-> size,
   mtime |-> mtime, target |-> << >>, names |-> << >>, ids |-> << >>,
   readable |-> TRUE]

Link(target, uid, mtime) ==
  [mode |-> S_IFLNK + 511, nlink |-> 1, uid |-> uid, gid |-> uid,
   size |-> Len(target), mtime |-> mtime, target |-> target,
   names |-> << >>, ids |-> << >>, readable |-> TRUE]

Dir(perm, names, ids, readable) ==
  [mode |-> S_IFDIR + perm, nlink |-> 2, uid |-> 1000, gid |-> 1000,
   size |-> 4096, mtime |-> AtSecond(Epoch - 100), target |-> << >>,
   names |-> names, ids |-> ids, readable |-> readable]

Nodes ==
  [ solo     |-> Dir(493, <<README>>, <<"s_readme">>, TRUE),
    s_readme |-> File(S_IFREG + 420, 1, 1000, 1000, 120, AtSecond(Epoch - 60)),
    work     |-> Dir(493,
                     <<lnk, Banana, dot_rc, sub, apple, orphan, Cherry,
                       locked, a_txt, dead>>,
                     <<"w_lnk", "w_banana", "w_rc", "w_sub", "w_apple",
                       "w_orphan", "w_cherry", "w_locked", "w_atxt",
                       "w_dead">>, TRUE),
    \* modified half a tick-second after the start of second Epoch
    w_apple  |-> File(S_IFREG + 420, 1, 1000, 1000, 5, AtSecond(Epoch) + 1),
    \* modified exactly at second Epoch, executable
    w_banana |-> File(S_IFREG + 493, 2, 0, 0, 123456789, AtSecond(Epoch)),
    \* modified exactly six months before second Epoch
    w_cherry |-> File(S_IFREG + 384, 1, 1000, 1000, 0,
                      AtSecond(Epoch - SixMonths)),
    \* modified just before that
    w_atxt   |-> File(S_IFREG + 420, 1, 1000, 0, 42,
                      AtSecond(Epoch - SixMonths) - 1),
    w_rc     |-> File(S_IFREG + 420, 1, 1000, 1000, 7, AtSecond(Epoch - 50)),
    \* owned by a uid and gid that have no passwd / group entry
    w_orphan |-> File(S_IFREG + 420, 1, 4242, 4242, 9, AtSecond(Epoch - 50)),
    w_lnk    |-> Link(apple, 1000, AtSecond(Epoch - 50)),
    w_dead   |-> Link(gone, 1000, AtSecond(Epoch - 50)),
    w_sub    |-> Dir(493, <<x_c, apple>>, <<"u_xc", "u_apple">>, TRUE),
    w_locked |-> Dir(0, <<README>>, <<"l_readme">>, FALSE),
    u_apple  |-> File(S_IFREG + 256, 1, 0, 0, 77777, AtSecond(Epoch - 9000)),
    u_xc     |-> File(S_IFREG + 420, 1, 1000, 1000, 300, AtSecond(Epoch - 70)),
    l_readme |-> File(S_IFREG + 420, 1, 1000, 1000, 1, AtSecond(Epoch - 70)) ]

CwdChoices == {"solo", "work"}

\* the entry called name in directory dir, or NoNode
Child(dir, name) ==
  LET d == Nodes[dir]
      hits == {i \in 1..Len(d.names) : d.names[i] = name}
  IN  IF hits = {} THEN NoNode ELSE d.ids[CHOOSE i \in hits : TRUE]

\* type tests of the stat module: the file type is bits 12..15 of the mode
S_IFMT(mode) == ((mode \div 4096) % 16) * 4096
S_ISDIR(mode) == S_IFMT(mode) = S_IFDIR
S_ISLNK(mode) == S_IFMT(mode) = S_IFLNK
S_ISREG(mode) == S_IFMT(mode) = S_IFREG
\* stat.S_IMODE: the low twelve bits
S_IMODE(mode) == mode % 4096
\* mode & (1 << k) is non-zero
BitSet(mode, k) == (mode \div (2 ^ k)) % 2 = 1

\* os.lstat(name) with working directory cwd: the node, or NoNode when the
\* call raises.  Every name the program passes is a single path component,
\* "." or "", and is resolved against the working directory.
lstat(cwd, name) == IF name = Dot THEN cwd ELSE Child(cwd, name)

\* os.stat(name): as lstat, following a symbolic link
stat(cwd, name) ==
  LET n == lstat(cwd, name)
  IN  IF n = NoNode THEN NoNode
      ELSE IF S_ISLNK(Nodes[n].mode) THEN lstat(cwd, Nodes[n].target)
      ELSE n

\* os.path.exists(name), os.path.isdir(name), os.readlink(name)
exists(cwd, name) == stat(cwd, name) # NoNode
isdir(cwd, name) ==
  stat(cwd, name) # NoNode /\ S_ISDIR(Nodes[stat(cwd, name)].mode)
readlink(cwd, name) == Nodes[lstat(cwd, name)].target

\* os.listdir(name) raises PermissionError on a directory without read
\* permission
listdirRaises(cwd, name) == ~Nodes[stat(cwd, name)].readable

Reverse(s) == [i \in 1..Len(s) |-> s[Len(s) + 1 - i]]

\* os.listdir(name) returns the names in arbitrary order: the order stored
\* or its reverse
listdir(cwd, name) ==
  LET ns == Nodes[stat(cwd, name)].names IN {ns, Reverse(ns)}

\* ------------------------------------------------- the identity databases
\* pwd.getpwuid / grp.getgrgid: the entries present
passwd == (0 :> <<114, 111, 111, 116>>) @@ (1000 :> <<104, 101, 110, 114, 121>>)
group == (0 :> <<119, 104, 101, 101, 108>>) @@ (1000 :> <<117, 115, 101, 114, 115>>)
\* --------------------------------------------------------------- has_colors
\* A terminal: whether stdout.isatty(), whether curses.setupterm() works, and
\* what curses.tigetnum("colors") reports.
TermChoices ==
  { [isatty |-> FALSE, curses |-> TRUE,  ncolors |-> 8],
    [isatty |-> TRUE,  curses |-> FALSE, ncolors |-> 8],
    [isatty |-> TRUE,  curses |-> TRUE,  ncolors |-> 2],
    [isatty |-> TRUE,  curses |-> TRUE,  ncolors |-> 8] }

has_colors(stream) ==
  IF ~stream.isatty THEN FALSE
  ELSE IF ~stream.curses THEN FALSE
  ELSE stream.ncolors > 2

\* ------------------------------------------------------------ get_mode_info
\* the nine permission characters appended by the loops over who and what:
\* step i (0..8) tests bit 8 - i and writes r, w or x (114, 119, 120) or -
\* the loops with the bits taken from other execute up to owner read
RECURSIVE PermLoopReversed(_, _, _)
PermLoopReversed(perms, mode, i) ==
  IF i > 8 THEN perms
  ELSE PermLoopReversed(perms \o <<IF BitSet(mode, i)
                                    THEN <<114, 119, 120>>[(i % 3) + 1]
                                    ELSE 45>>,
                        mode, i + 1)

RECURSIVE PermLoop(_, _, _)
PermLoop(perms, mode, i) ==
  IF i > 8 THEN perms
  ELSE PermLoop(perms \o <<IF BitSet(mode, 8 - i)
                            THEN <<114, 119, 120>>[(i % 3) + 1]
                            ELSE 45>>,
                mode, i + 1)

\* mode & (S_IXGRP | S_IXUSR | S_IXOTH)
AnyExec(mode) == BitSet(mode, 6) \/ BitSet(mode, 3) \/ BitSet(mode, 0)

\* the dot tested before the execute bits
RegularColorHiddenFirst(mode, filename) ==
  IF filename[1] = 46 THEN "gray"
  ELSE IF AnyExec(mode) THEN "green"
  ELSE "white"

\* the color chosen for a regular file
RegularColor(mode, filename) ==
  IF AnyExec(mode) THEN "green"
  ELSE IF filename[1] = 46 THEN "gray"
  ELSE "white"

\* get_mode_info(mode, filename); target is what os.readlink(filename)
\* returns and targetExists what os.path.exists(filename) returns.
get_mode_info(mode, filename, target, targetExists) ==
  LET first == IF S_ISDIR(mode) THEN 100            \* "d"
               ELSE IF S_ISLNK(mode) THEN 108       \* "l"
               ELSE 45                              \* "-"
      color == IF S_ISDIR(mode) THEN "cyan"
               ELSE IF S_ISLNK(mode)
                    THEN (IF ~targetExists THEN "red" ELSE "purple")
               ELSE IF S_ISREG(mode) THEN RegularColor(mode, filename)
               ELSE "default"
      link  == IF S_ISLNK(mode) THEN target ELSE << >>
  IN  [perms |-> PermLoop(<<first>>, S_IMODE(mode), 0),
       color |-> color,
       link  |-> link]

\* ------------------------------------------- get_user_info, get_group_info
\* unixIds: the modules pwd and grp can be imported.  The result is the
\* returned string, or the exception that leaves the function.
get_user_info(unixIds, uid) ==
  IF ~unixIds THEN [raised |-> "none", val |-> Str(uid)]          \* ImportError
  ELSE IF uid \in DOMAIN passwd THEN [raised |-> "none", val |-> passwd[uid]]
  ELSE [raised |-> "KeyError", val |-> << >>]

get_group_info(unixIds, gid) ==
  IF ~unixIds THEN [raised |-> "none", val |-> Str(gid)]          \* ImportError
  ELSE IF gid \in DOMAIN group THEN [raised |-> "none", val |-> group[gid]]
  ELSE [raised |-> "KeyError", val |-> << >>]

\* ------------------------------------------------------- list_files helpers
\* int(time.time()) for a clock in ticks, again in ticks
IntNow(clock) == (clock \div TicksPerSecond) * TicksPerSecond

YearFmt == "%b %e  %Y"
ClockFmt == "%b %e %R"

\* the format chosen for modification time ts; now is int(time.time())
TimeFmt(ts, now) ==
  LET recent == now - AtSecond(SixMonths)
  IN  IF (ts < recent) \/ (ts > now) THEN YearFmt ELSE ClockFmt

\* time.strftime(fmt, time.gmtime(ts)): the format and the whole second that
\* gmtime keeps; the calendar fields are not expanded
TimeStr(ts, now) == [fmt |-> TimeFmt(ts, now), tm |-> ts \div TicksPerSecond]

\* the Name column
FilenameStr(filename, color, link, does_have_colors) ==
  LET base == IF colors[color] # << >> /\ does_have_colors
              THEN colors[color] \o filename \o ColorReset
              ELSE filename
  IN  (IF link # << >> THEN base \o Arrow ELSE base) \o link

\* the row added for filename, whose lstat result is node n
Row(cwd, unixIds, does_have_colors, now, filename, n) ==
  LET st == Nodes[n]
      mi == get_mode_info(st.mode, filename,
                          IF S_ISLNK(st.mode) THEN readlink(cwd, filename)
                          ELSE << >>,
                          exists(cwd, filename))
  IN  [perms |-> mi.perms,
       nlink |-> PadLeft(Str(st.nlink), 4),
       owner |-> get_user_info(unixIds, st.uid).val,
       group |-> get_group_info(unixIds, st.gid).val,
       size  |-> PadLeft(Str(st.size), 8),
       time  |-> TimeStr(st.mtime, now),
       name  |-> FilenameStr(filename, mi.color, mi.link, does_have_colors)]

\* the first exception raised while the row of node n is built
RowRaises(unixIds, n) ==
  IF get_user_info(unixIds, Nodes[n].uid).raised # "none"
  THEN get_user_info(unixIds, Nodes[n].uid).raised
  ELSE get_group_info(unixIds, Nodes[n].gid).raised

\* global_status = status: a later success resets an earlier failure
MergeStatusLast(global_status, status) ==
  IF status # Success THEN ErrorCode ELSE Success

\* if status != self.success: global_status = self.error
MergeStatus(global_status, status) ==
  IF status # Success THEN ErrorCode ELSE global_status
\* ---------------------------------------------------------------- the state
VARIABLES
  cwd,        \* the working directory (a node of Nodes)
  unixIds,    \* the modules pwd and grp exist
  term,       \* the terminal behind sys.stdout
  clock,      \* time.time(), in ticks
  arg,        \* the call under way and its argument
  pc,         \* where control is
  cont,       \* who called list_files: "top", "noarg", "tail" or "loop"
  lsIdx,      \* ls: index of item in path
  lsStatus,   \* ls: global_status
  statuses,   \* ls: the values status has taken, one per item
  files,      \* list_files: files, sorted
  idx,        \* list_files: index of filename in files
  lfStatus,   \* list_files: global_status
  now,        \* list_files: now, in ticks
  table,      \* list_files: the rows added to table
  shown,      \* list_files: the filename each row of table was built from
  stdout,     \* what was printed
  stderr,     \* what was written to sys.stderr
  ret,        \* the value returned by the call
  exc         \* the exception that left the call

vars == <<cwd, unixIds, term, clock, arg, pc, cont, lsIdx, lsStatus, statuses,
          files, idx, lfStatus, now, table, shown, stdout, stderr, ret, exc>>

env == <<cwd, unixIds, term, clock, arg>>
lsFrame == <<lsIdx, lsStatus, statuses>>
lfFrame == <<files, idx, lfStatus, now, table, shown>>

None == "None"

\* lists of at most n elements of S
SeqUpTo(S, n) == UNION {[1..k -> S] : k \in 0..n}

\* the names handed to list_files, and the paths handed to ls
FileUniverse == {apple, Banana, Cherry, a_txt, missing_txt, orphan}
SinglePaths == {Empty, Dot, sub, locked, a_txt, missing_txt, lnk}
PathUniverse == {Dot, sub, locked, a_txt, missing_txt}

Calls ==
  {[op |-> "list_files", files |-> fs] : fs \in SeqUpTo(FileUniverse, MaxFiles)}
  \cup {[op |-> "ls", kind |-> "str", path |-> p] : p \in SinglePaths}
  \cup {[op |-> "ls", kind |-> "list", path |-> ps] :
          ps \in SeqUpTo(PathUniverse, MaxPaths)}

\* the clock reads half a tick-second into second Epoch, or a second later
ClockChoices == {AtSecond(Epoch) + 1, AtSecond(Epoch + 1)}

Idle ==
  /\ pc = "start"
  /\ cont = None
  /\ lsIdx = 0
  /\ lsStatus = Success
  /\ statuses = << >>
  /\ files = << >>
  /\ idx = 0
  /\ lfStatus = Success
  /\ now = 0
  /\ table = << >>
  /\ shown = << >>
  /\ stdout = << >>
  /\ stderr = << >>
  /\ ret = None
  /\ exc = None

Init ==
  /\ cwd \in CwdChoices
  /\ unixIds \in BOOLEAN
  /\ term \in TermChoices
  /\ clock \in ClockChoices
  /\ arg \in Calls
  /\ Idle

\* ------------------------------------------------------------- list_files
\* lines 104-123: the status, the empty table, the sort and the clock
BeginListFiles(fs, caller) ==
  /\ files' = SortedByLower(fs)
  /\ idx' = 1
  /\ lfStatus' = Success
  /\ now' = IntNow(clock)
  /\ table' = << >>
  /\ shown' = << >>
  /\ cont' = caller
  /\ pc' = "lf_loop"

\* an exception nothing catches leaves the call
Raise(e) ==
  /\ exc' = e
  /\ pc' = "raised"

\* list_files(files) called directly
Call_list_files ==
  /\ pc = "start"
  /\ arg.op = "list_files"
  /\ BeginListFiles(arg.files, "top")
  /\ UNCHANGED <<env, lsFrame, stdout, stderr, ret, exc>>

\* lines 126-131: os.lstat raises
LF_EntryMissing ==
  /\ pc = "lf_loop"
  /\ idx <= Len(files)
  /\ lstat(cwd, files[idx]) = NoNode
  /\ stderr' = Append(stderr, files[idx] \o DiagSuffix)
  /\ lfStatus' = ErrorCode
  /\ idx' = idx + 1
  /\ UNCHANGED <<env, lsFrame, files, now, table, shown, pc, cont, stdout,
                 ret, exc>>

\* lines 127, 133-169: the row of an entry
LF_EntryRow ==
  /\ pc = "lf_loop"
  /\ idx <= Len(files)
  /\ lstat(cwd, files[idx]) # NoNode
  /\ RowRaises(unixIds, lstat(cwd, files[idx])) = "none"
  /\ table' = Append(table, Row(cwd, unixIds, has_colors(term), now,
                                files[idx], lstat(cwd, files[idx])))
  /\ shown' = Append(shown, files[idx])
  /\ idx' = idx + 1
  /\ UNCHANGED <<env, lsFrame, files, now, lfStatus, pc, cont, stdout,
                 stderr, ret, exc>>

\* lines 139-140: getpwuid or getgrgid raises KeyError, which nothing catches
LF_EntryLookupRaises ==
  /\ pc = "lf_loop"
  /\ idx <= Len(files)
  /\ lstat(cwd, files[idx]) # NoNode
  /\ RowRaises(unixIds, lstat(cwd, files[idx])) # "none"
  /\ Raise(RowRaises(unixIds, lstat(cwd, files[idx])))
  /\ UNCHANGED <<env, lsFrame, lfFrame, cont, stdout, stderr, ret>>

\* lines 171-179: print(table); return global_status
LF_Print ==
  /\ pc = "lf_loop"
  /\ idx > Len(files)
  /\ stdout' = Append(stdout, [kind |-> "table", rows |-> table])
  /\ pc' = "lf_ret"
  /\ UNCHANGED <<env, lsFrame, lfFrame, cont, stderr, ret, exc>>

Return_list_files ==
  /\ pc = "lf_ret"
  /\ cont = "top"
  /\ ret' = lfStatus
  /\ pc' = "done"
  /\ UNCHANGED <<env, lsFrame, lfFrame, cont, stdout, stderr, exc>>

\* ----------------------------------------------------------------------- ls
\* lines 185-187: path == ""
Ls_NoArg ==
  /\ pc = "start"
  /\ arg.op = "ls"
  /\ arg.kind = "str"
  /\ arg.path = Empty
  /\ \E content \in listdir(cwd, Dot) : BeginListFiles(content, "noarg")
  /\ UNCHANGED <<env, lsFrame, stdout, stderr, ret, exc>>

\* control is at line 199 with a path that is not a list: at the start of
\* the call when path # "", and after the call of line 187 when path == ""
AtSinglePath ==
  \/ pc = "start" /\ arg.op = "ls" /\ arg.kind = "str" /\ arg.path # Empty
  \/ pc = "lf_ret" /\ cont = "noarg"

\* lines 199-201
Ls_PathIsDir ==
  /\ AtSinglePath
  /\ isdir(cwd, arg.path)
  /\ ~listdirRaises(cwd, arg.path)
  /\ \E content \in listdir(cwd, arg.path) : BeginListFiles(content, "tail")
  /\ UNCHANGED <<env, lsFrame, stdout, stderr, ret, exc>>

\* line 200: os.listdir raises
Ls_PathListdirRaises ==
  /\ AtSinglePath
  /\ isdir(cwd, arg.path)
  /\ listdirRaises(cwd, arg.path)
  /\ Raise("PermissionError")
  /\ UNCHANGED <<env, lsFrame, lfFrame, cont, stdout, stderr, ret>>

\* lines 202-203
Ls_PathNotDir ==
  /\ AtSinglePath
  /\ ~isdir(cwd, arg.path)
  /\ BeginListFiles(<<arg.path>>, "tail")
  /\ UNCHANGED <<env, lsFrame, stdout, stderr, ret, exc>>

\* lines 201, 203: return self.list_files(files)
Ls_Return ==
  /\ pc = "lf_ret"
  /\ cont = "tail"
  /\ ret' = lfStatus
  /\ pc' = "done"
  /\ UNCHANGED <<env, lsFrame, lfFrame, cont, stdout, stderr, exc>>

\* lines 188-189
Ls_ListStart ==
  /\ pc = "start"
  /\ arg.op = "ls"
  /\ arg.kind = "list"
  /\ lsStatus' = Success
  /\ lsIdx' = 1
  /\ pc' = "ls_loop"
  /\ UNCHANGED <<env, lfFrame, statuses, cont, stdout, stderr, ret, exc>>

Header(item) == [kind |-> "line", text |-> HeaderPrefix \o item]

\* lines 190-195, item is a directory
Ls_ItemIsDir ==
  /\ pc = "ls_loop"
  /\ lsIdx <= Len(arg.path)
  /\ isdir(cwd, arg.path[lsIdx])
  /\ ~listdirRaises(cwd, arg.path[lsIdx])
  /\ stdout' = Append(stdout, Header(arg.path[lsIdx]))
  /\ \E content \in listdir(cwd, arg.path[lsIdx]) :
        BeginListFiles(content, "loop")
  /\ UNCHANGED <<env, lsFrame, stderr, ret, exc>>

\* lines 190-194, os.listdir raises
Ls_ItemListdirRaises ==
  /\ pc = "ls_loop"
  /\ lsIdx <= Len(arg.path)
  /\ isdir(cwd, arg.path[lsIdx])
  /\ listdirRaises(cwd, arg.path[lsIdx])
  /\ stdout' = Append(stdout, Header(arg.path[lsIdx]))
  /\ Raise("PermissionError")
  /\ UNCHANGED <<env, lsFrame, lfFrame, cont, stderr, ret>>

\* lines 190-195, item is not a directory
Ls_ItemNotDir ==
  /\ pc = "ls_loop"
  /\ lsIdx <= Len(arg.path)
  /\ ~isdir(cwd, arg.path[lsIdx])
  /\ stdout' = Append(stdout, Header(arg.path[lsIdx]))
  /\ BeginListFiles(<<arg.path[lsIdx]>>, "loop")
  /\ UNCHANGED <<env, lsFrame, stderr, ret, exc>>

\* lines 195-197: status = ...; the next item
Ls_ItemDone ==
  /\ pc = "lf_ret"
  /\ cont = "loop"
  /\ statuses' = Append(statuses, lfStatus)
  /\ lsStatus' = MergeStatus(lsStatus, lfStatus)
  /\ lsIdx' = lsIdx + 1
  /\ pc' = "ls_loop"
  /\ UNCHANGED <<env, lfFrame, cont, stdout, stderr, ret, exc>>

\* line 198
Ls_ListReturn ==
  /\ pc = "ls_loop"
  /\ lsIdx > Len(arg.path)
  /\ ret' = lsStatus
  /\ pc' = "done"
  /\ UNCHANGED <<env, lsFrame, lfFrame, cont, stdout, stderr, exc>>

Next ==
  \/ Call_list_files
  \/ LF_EntryMissing
  \/ LF_EntryRow
  \/ LF_EntryLookupRaises
  \/ LF_Print
  \/ Return_list_files
  \/ Ls_NoArg
  \/ Ls_PathIsDir
  \/ Ls_PathListdirRaises
  \/ Ls_PathNotDir
  \/ Ls_Return
  \/ Ls_ListStart
  \/ Ls_ItemIsDir
  \/ Ls_ItemListdirRaises
  \/ Ls_ItemNotDir
  \/ Ls_ItemDone
  \/ Ls_ListReturn

Spec == Init /\ [][Next]_vars

TypeOK ==
  /\ pc \in {"start", "lf_loop", "lf_ret", "ls_loop", "done", "raised"}
  /\ lfStatus \in {Success, ErrorCode}
  /\ lsStatus \in {Success, ErrorCode}
  /\ Len(shown) = Len(table)
\* ------------------------------------------- get_mode_info called by itself
\* every 16-bit mode, a plain and a dotted name, and a link whose target
\* exists or not
ModeTargets ==
  {[target |-> apple, targetExists |-> TRUE],
   [target |-> gone, targetExists |-> FALSE]}

InitMode ==
  /\ cwd = "work"
  /\ unixIds = TRUE
  /\ term = [isatty |-> FALSE, curses |-> TRUE, ncolors |-> 8]
  /\ clock = AtSecond(Epoch + 1)
  /\ \E m \in 0..65535, f \in {a_txt, dot_rc}, t \in ModeTargets :
        arg = [op |-> "get_mode_info", mode |-> m, filename |-> f,
               target |-> t.target, targetExists |-> t.targetExists]
  /\ Idle

Call_get_mode_info ==
  /\ pc = "start"
  /\ arg.op = "get_mode_info"
  /\ ret' = get_mode_info(arg.mode, arg.filename,
                          IF S_ISLNK(arg.mode) THEN arg.target ELSE << >>,
                          arg.targetExists)
  /\ pc' = "done"
  /\ UNCHANGED <<env, lsFrame, lfFrame, cont, stdout, stderr, exc>>

NextMode == Call_get_mode_info

SpecMode == InitMode /\ [][NextMode]_vars

\* ================================================================= claims
Count(s, x) == Cardinality({i \in DOMAIN s : s[i] = x})

\* the rows of all the tables printed so far
RECURSIVE RowsPrinted(_)
RowsPrinted(out) ==
  IF out = << >> THEN << >>
  ELSE (IF out[1].kind = "table" THEN out[1].rows ELSE << >>)
       \o RowsPrinted(Tail(out))

Finished == pc \in {"done", "raised"}

\* C1: every entry handed to list_files gives exactly one row (lstat
\* succeeded) or exactly one diagnostic line (lstat failed), the table is
\* printed whatever failed, and the status returned is the failure code
\* exactly when some entry failed.
C1_EveryEntryOneOutcome ==
  (arg.op = "list_files" /\ Finished) =>
     /\ exc = None
     /\ Len(stdout) = 1
     /\ stdout[1] = [kind |-> "table", rows |-> table]
     /\ \A f \in FileUniverse :
          IF lstat(cwd, f) # NoNode
          THEN /\ Count(shown, f) = Count(arg.files, f)
               /\ Count(stderr, f \o DiagSuffix) = 0
          ELSE /\ Count(shown, f) = 0
               /\ Count(stderr, f \o DiagSuffix) = Count(arg.files, f)
     /\ Len(stderr) + Len(table) = Len(arg.files)
     /\ ret = IF \E i \in DOMAIN arg.files : lstat(cwd, arg.files[i]) = NoNode
              THEN ErrorCode ELSE Success

\* C2: ls() in a directory holding only README prints exactly one row, the
\* one of README, writes nothing to stderr and returns the success code.
C2_NoArgListsCwd ==
  (arg.op = "ls" /\ arg.kind = "str" /\ arg.path = Empty /\ cwd = "solo"
     /\ Finished) =>
     /\ exc = None
     /\ Len(RowsPrinted(stdout)) = 1
     /\ RowsPrinted(stdout)[1].name =
          FilenameStr(README, "white", << >>, has_colors(term))
     /\ stderr = << >>
     /\ ret = Success

\* C3: ls(path) for a directory path returns having printed one row per
\* child of that directory, built from that child's metadata, and returns
\* the success code (every child of a directory exists).
C3_DirListsChildren ==
  (arg.op = "ls" /\ arg.kind = "str" /\ arg.path # Empty
     /\ isdir(cwd, arg.path) /\ pc = "done") =>
     LET d == Nodes[stat(cwd, arg.path)]
         rows == RowsPrinted(stdout)
     IN  /\ Len(rows) = Len(d.names)
         /\ \A k \in 1..Len(d.names) :
              \E r \in 1..Len(rows) :
                 rows[r] = Row(cwd, unixIds, has_colors(term), now,
                               d.names[k], d.ids[k])
         /\ ret = Success

\* C4: in list mode the output is header 1, table 1, header 2, table 2, ...
\* in list order, the table of a path that is not a directory is the table
\* of that path alone, and the status returned is the failure code exactly
\* when some sub-listing returned a failure.
C4_ListMode ==
  (arg.op = "ls" /\ arg.kind = "list") =>
     /\ Len(stdout) <= 2 * Len(arg.path)
     /\ \A k \in 1..Len(stdout) :
          IF k % 2 = 1
          THEN stdout[k] = Header(arg.path[(k + 1) \div 2])
          ELSE /\ stdout[k].kind = "table"
               /\ LET item == arg.path[k \div 2]
                  IN  ~isdir(cwd, item) =>
                        stdout[k].rows =
                          IF lstat(cwd, item) = NoNode THEN << >>
                          ELSE <<Row(cwd, unixIds, has_colors(term), now,
                                     item, lstat(cwd, item))>>
     /\ Len(statuses) = IF pc = "lf_ret" THEN Len(stdout) \div 2 - 1
                         ELSE Len(stdout) \div 2
     /\ pc = "ls_loop" =>
          /\ Len(stdout) = 2 * (lsIdx - 1)
          /\ lsStatus = IF \E k \in DOMAIN statuses : statuses[k] # Success
                        THEN ErrorCode ELSE Success
     /\ pc = "done" =>
          /\ Len(stdout) = 2 * Len(arg.path)
          /\ ret = IF \E k \in DOMAIN statuses : statuses[k] # Success
                   THEN ErrorCode ELSE Success

\* an earlier failure followed by a successful sub-listing
C4_Witness ==
  /\ arg.op = "ls" /\ arg.kind = "list"
  /\ pc = "done"
  /\ statuses = <<ErrorCode, Success>>
  /\ ret = ErrorCode
  /\ Len(stdout) = 4

\* C5: in list mode a path whose listing fails does not abort ls: every path
\* gets its header and its table, and the failure code is returned.  (Stated
\* for lists of two paths or more, and leaving aside the runs that a KeyError
\* of the owner lookup ends.)
C5_FailedPathDoesNotAbort ==
  (arg.op = "ls" /\ arg.kind = "list" /\ Len(arg.path) >= 2 /\ Finished
     /\ exc # "KeyError") =>
     /\ exc = None
     /\ Len(stdout) = 2 * Len(arg.path)
     /\ (\E k \in DOMAIN arg.path :
            \/ lstat(cwd, arg.path[k]) = NoNode
            \/ (isdir(cwd, arg.path[k]) /\ listdirRaises(cwd, arg.path[k])))
          => ret = ErrorCode

\* C6: owner and group resolution never raises: a row's owner (group) is the
\* name found, or the decimal string of the id when the database is absent
\* or has no entry, and an unknown id never aborts list_files.
C6_LookupNeverRaises ==
  /\ exc # "KeyError"
  /\ \A i \in 1..Len(table) :
       LET st == Nodes[lstat(cwd, shown[i])]
       IN  /\ table[i].owner = IF unixIds /\ st.uid \in DOMAIN passwd
                               THEN passwd[st.uid] ELSE Str(st.uid)
           /\ table[i].group = IF unixIds /\ st.gid \in DOMAIN group
                               THEN group[st.gid] ELSE Str(st.gid)
  /\ (pc = "lf_ret" =>
        \A f \in FileUniverse :
           lstat(cwd, f) # NoNode => Count(shown, f) = Count(files, f))

\* C7: the permission string has ten characters: d, l or - for the type,
\* then r, w, x or - for the nine permission bits from owner read (bit 8)
\* down to other execute (bit 0).
C7_PermissionString ==
  (arg.op = "get_mode_info" /\ pc = "done") =>
     LET type == (arg.mode \div 4096) % 16
         letters == <<114, 119, 120, 114, 119, 120, 114, 119, 120>>
     IN  /\ Len(ret.perms) = 10
         /\ ret.perms[1] = IF type = 4 THEN 100
                           ELSE IF type = 10 THEN 108 ELSE 45
         /\ \A i \in 1..9 :
              ret.perms[i + 1] =
                IF (arg.mode \div (2 ^ (9 - i))) % 2 = 1 THEN letters[i]
                ELSE 45

\* a directory with mode 0o750 (and the setgid bit) gives "drwxr-x---"
C7_Witness ==
  /\ arg.op = "get_mode_info" /\ pc = "done"
  /\ arg.mode = S_IFDIR + 1024 + 488
  /\ ret.perms = <<100, 114, 119, 120, 114, 45, 120, 45, 45, 45>>

\* C8: the color is cyan for a directory; for a symbolic link red when its
\* target does not exist and purple otherwise; for a regular file green when
\* an execute bit is set, else gray when the name starts with ".", else
\* white; default for any other type.  Only a symbolic link has a target.
C8_ColorPriority ==
  (arg.op = "get_mode_info" /\ pc = "done") =>
     LET type == (arg.mode \div 4096) % 16
         exec == \E b \in {0, 3, 6} : (arg.mode \div (2 ^ b)) % 2 = 1
     IN  /\ ret.color =
              CASE type = 4 -> "cyan"
                [] type = 10 -> (IF arg.targetExists THEN "purple" ELSE "red")
                [] type = 8 -> (IF exec THEN "green"
                                ELSE IF Head(arg.filename) = 46 THEN "gray"
                                ELSE "white")
                [] OTHER -> "default"
         /\ (ret.link # << >> => type = 10)
         /\ (type = 10 => ret.link = arg.target)

\* an executable regular file whose name starts with "." is green
C8_Witness ==
  /\ arg.op = "get_mode_info" /\ pc = "done"
  /\ arg.mode = S_IFREG + 493
  /\ arg.filename = dot_rc
  /\ ret.color = "green"
  /\ ret.link = << >>

\* C9: with now the current time and threshold = now - 15,552,000 s, a row
\* shows the year format when ts < threshold or ts > now, and the
\* time-of-day format when threshold <= ts <= now.
C9_TimeFormatWindow ==
  \A i \in 1..Len(table) :
     LET ts == Nodes[lstat(cwd, shown[i])].mtime
         threshold == clock - AtSecond(SixMonths)
     IN  table[i].time.fmt =
           IF ts < threshold \/ ts > clock THEN YearFmt ELSE ClockFmt

\* C10: the rows of a table are in case-insensitive name order: they are the
\* entries that resolved, no row comes before a row whose lower-cased name
\* is smaller, and Banana, apple, Cherry come out as apple, Banana, Cherry.
C10_RowsInCaseInsensitiveOrder ==
  /\ \A i, j \in 1..Len(shown) :
       i < j => ~StrLess(Lower(shown[j]), Lower(shown[i]))
  /\ \A i \in 1..Len(shown) : lstat(cwd, shown[i]) # NoNode
  /\ (pc = "lf_ret" =>
        /\ stdout[Len(stdout)].rows = table
        /\ \A f \in FileUniverse :
             lstat(cwd, f) # NoNode => Count(shown, f) = Count(files, f))
  /\ (arg.op = "list_files" =>
        \A f \in FileUniverse : Count(files, f) \in {0, Count(arg.files, f)})
  /\ (arg.op = "list_files" /\ pc = "lf_ret" /\ cwd = "work"
        /\ Len(arg.files) = 3
        /\ {arg.files[i] : i \in 1..3} = {Banana, apple, Cherry}) =>
        shown = <<apple, Banana, Cherry>>

\* the example, given in the order Banana, apple, Cherry
C10_Witness ==
  /\ arg.op = "list_files" /\ pc = "done"
  /\ cwd = "work"
  /\ arg.files = <<Banana, apple, Cherry>>
  /\ shown = <<apple, Banana, Cherry>>
  /\ Len(table) = 3
====
